---------------------------- MODULE Spec2Model ----------------------------
(***************************************************************************)
(* Session discovery and status inference of agent-sessions (src-tauri).   *)
(*                                                                         *)
(* Strings that the code compares, splits or joins (directory names and    *)
(* paths) are sequences of symbols: the separators "/" and "-" and words,  *)
(* a word being a maximal run of characters that holds no separator (so no *)
(* two words are adjacent).  Timestamps, which the code orders as strings, *)
(* are sequences of character codes.                                       *)
(***************************************************************************)
EXTENDS Integers, Sequences, FiniteSets, TLC

VARIABLES
    signals,          \* the arguments of one call of status::determine_status
    status_result,    \* what that call returned
    dir_name,         \* the argument of one call of convert_dir_name_to_path
    project_path,     \* what that call returned
    claude_processes, \* what find_claude_processes() returns in a poll
    claude_projects,       \* ~/.claude/projects: [exists, entries]
    opencode_processes, \* what find_opencode_processes() returns in a poll
    opencode_storage,          \* ~/.local/share/opencode/storage: [exists, projects, session]
    operation,        \* the operation that returned `response`
    response,         \* the SessionsResponse of the last poll
    now,              \* the time, in sampling intervals
    busy,             \* per family, whether its process computes all the time
    opencode_system,  \* the static OPENCODE_SYSTEM: [lock, system]
    systems_created,  \* per family, the sysinfo::System instances created so far
    polls,            \* per family, the sample times of its finished enumerations
    pc                \* per caller of find_opencode_processes, where it is

pure_vars == <<signals, status_result, dir_name, project_path>>

world_vars == <<claude_processes, claude_projects, opencode_processes, opencode_storage>>

poll_vars == <<operation, response>>

sampler_vars == <<now, busy, opencode_system, systems_created, polls, pc>>

vars == <<pure_vars, world_vars, poll_vars, sampler_vars>>

\* Option<T>: None, or Some(x)
None == <<>>
Some(x) == <<x>>
IsSome(o) == Len(o) = 1
Unwrap(o) == o[1]

(***************************************************************************)
(* session/status.rs                                                       *)
(***************************************************************************)
Statuses == {"Waiting", "Processing", "Thinking", "Idle"}

\* The message types drawn for last_msg_type: Option<&str>.
MsgTypes == {Some("assistant"), Some("user"), Some("system"), None}

\* A determine_status that reports a tool in use as running, however stale
\* the file.
DetermineStatusToolRunning(last_msg_type, has_tool_use, has_tool_result, is_local_command, is_interrupted, file_recently_modified) ==
    CASE last_msg_type = Some("assistant") ->
            IF has_tool_use THEN "Processing"
            ELSE IF file_recently_modified THEN "Processing" ELSE "Waiting"
      [] last_msg_type = Some("user") ->
            IF is_local_command \/ is_interrupted THEN "Waiting"
            ELSE IF file_recently_modified THEN "Thinking" ELSE "Waiting"
      [] OTHER ->
            IF file_recently_modified THEN "Thinking" ELSE "Idle"

\* A determine_status that looks at the tool result before the local
\* command and the interruption.
DetermineStatusToolResultFirst(last_msg_type, has_tool_use, has_tool_result, is_local_command, is_interrupted, file_recently_modified) ==
    CASE last_msg_type = Some("assistant") ->
            IF file_recently_modified THEN "Processing" ELSE "Waiting"
      [] last_msg_type = Some("user") ->
            IF has_tool_result
            THEN IF file_recently_modified THEN "Thinking" ELSE "Waiting"
            ELSE IF is_local_command \/ is_interrupted THEN "Waiting"
            ELSE IF file_recently_modified THEN "Thinking" ELSE "Waiting"
      [] OTHER ->
            IF file_recently_modified THEN "Thinking" ELSE "Idle"

\* A determine_status that, as session.rs's older one, calls every unknown
\* message type Idle.
DetermineStatusUnknownIdle(last_msg_type, has_tool_use, has_tool_result, is_local_command, is_interrupted, file_recently_modified) ==
    CASE last_msg_type = Some("assistant") ->
            IF file_recently_modified THEN "Processing" ELSE "Waiting"
      [] last_msg_type = Some("user") ->
            IF is_local_command \/ is_interrupted THEN "Waiting"
            ELSE IF file_recently_modified THEN "Thinking" ELSE "Waiting"
      [] OTHER -> "Idle"

DetermineStatus(last_msg_type, has_tool_use, has_tool_result, is_local_command, is_interrupted, file_recently_modified) ==
    CASE last_msg_type = Some("assistant") ->
            IF has_tool_use
            THEN IF file_recently_modified THEN "Processing" ELSE "Waiting"
            ELSE IF file_recently_modified THEN "Processing" ELSE "Waiting"
      [] last_msg_type = Some("user") ->
            IF is_local_command \/ is_interrupted THEN "Waiting"
            ELSE IF has_tool_result
            THEN IF file_recently_modified THEN "Thinking" ELSE "Waiting"
            ELSE IF file_recently_modified THEN "Thinking" ELSE "Waiting"
      [] OTHER ->
            IF file_recently_modified THEN "Thinking" ELSE "Idle"

StatusSortPriority(status) ==
    CASE status = "Thinking" -> 0
      [] status = "Processing" -> 0
      [] status = "Waiting" -> 1
      [] status = "Idle" -> 2

(***************************************************************************)
(* Strings as sequences of symbols                                         *)
(***************************************************************************)
Landmarks == {"Projects", "UnityProjects"}

\* str.strip_prefix('-').unwrap_or(str)
StripPrefix(s, c) == IF Len(s) > 0 /\ s[1] = c THEN Tail(s) ELSE s

\* str.split(sep): the pieces between the separators; one piece, possibly
\* empty, when there is no separator.
RECURSIVE Split(_, _)
Split(s, sep) ==
    IF \A k \in 1..Len(s) : s[k] # sep
    THEN <<s>>
    ELSE LET k == CHOOSE j \in 1..Len(s) :
                      s[j] = sep /\ \A h \in 1..(j - 1) : s[h] # sep
         IN  <<SubSeq(s, 1, k - 1)>> \o Split(SubSeq(s, k + 1, Len(s)), sep)

\* [&str].join(sep)
RECURSIVE Join(_, _)
Join(parts, sep) ==
    IF Len(parts) = 0 THEN <<>>
    ELSE IF Len(parts) = 1 THEN parts[1]
    ELSE parts[1] \o <<sep>> \o Join(Tail(parts), sep)

\* str.replace(from, to) for one-symbol patterns
Replace(s, from, to) == [k \in 1..Len(s) |-> IF s[k] = from THEN to ELSE s[k]]

IsLandmark(p) == p = <<"Projects">> \/ p = <<"UnityProjects">>

\* parts.iter().position(|&p| ..): the first index (from 1) of a landmark
\* token, 0 when there is none
Position(parts) ==
    IF \E k \in 1..Len(parts) : IsLandmark(parts[k])
    THEN CHOOSE k \in 1..Len(parts) :
             IsLandmark(parts[k]) /\ \A h \in 1..(k - 1) : ~IsLandmark(parts[h])
    ELSE 0

\* A decoder that takes the last landmark token instead of the first.
ConvertDirNameToPathLastLandmark(name_in) ==
    LET name == StripPrefix(name_in, "-")
        parts == Split(name, "-")
        hits == {k \in 1..Len(parts) : IsLandmark(parts[k])}
    IN  IF hits # {}
        THEN LET idx == CHOOSE k \in hits : \A h \in hits : h <= k
                 path_parts == SubSeq(parts, 1, idx)
                 project_parts == SubSeq(parts, idx + 1, Len(parts))
             IN  <<"/">> \o Join(path_parts, "/")
                 \o (IF Len(project_parts) # 0
                     THEN <<"/">> \o Join(project_parts, "-")
                     ELSE <<>>)
        ELSE <<"/">> \o Replace(name, "-", "/")

ConvertDirNameToPath(name_in) ==
    LET name == StripPrefix(name_in, "-")
        parts == Split(name, "-")
        projects_idx == Position(parts)
    IN  IF projects_idx # 0
        THEN LET path_parts == SubSeq(parts, 1, projects_idx)
                 project_parts == SubSeq(parts, projects_idx + 1, Len(parts))
             IN  <<"/">> \o Join(path_parts, "/")
                 \o (IF Len(project_parts) # 0
                     THEN <<"/">> \o Join(project_parts, "-")
                     ELSE <<>>)
        ELSE <<"/">> \o Replace(name, "-", "/")

\* str.starts_with(prefix)
StartsWith(s, prefix) ==
    Len(prefix) <= Len(s) /\ SubSeq(s, 1, Len(prefix)) = prefix

\* path.split('/').filter(|s| !s.is_empty()).last().unwrap_or("Unknown")
ProjectName(path) ==
    LET comps == SelectSeq(Split(path, "/"), LAMBDA c : c # <<>>)
    IN  IF Len(comps) = 0 THEN <<"Unknown">> ELSE comps[Len(comps)]

(***************************************************************************)
(* Timestamps as sequences of character codes                              *)
(***************************************************************************)
Digit(d) == 48 + d

TwoDigits(n) == <<Digit(n \div 10), Digit(n % 10)>>

\* "Unknown"
Unknown == <<85, 110, 107, 110, 111, 119, 110>>

\* "1970-01-01T00:"
EpochHourPrefix == <<49, 57, 55, 48, 45, 48, 49, 45, 48, 49, 84, 48, 48, 58>>

\* ".000Z"
ZeroMillisZ == <<46, 48, 48, 48, 90>>

\* String::cmp: bytewise lexicographic, a proper prefix being the smaller.
StrLess(a, b) ==
    LET n == IF Len(a) < Len(b) THEN Len(a) ELSE Len(b)
        diff == {k \in 1..n : a[k] # b[k]}
    IN  IF diff = {} THEN Len(a) < Len(b)
        ELSE LET k == CHOOSE d \in diff : \A h \in diff : d <= h
             IN  a[k] < b[k]

\* chrono::DateTime::from_timestamp(updated / 1000, 0)
\*     .format("%Y-%m-%dT%H:%M:%S%.3fZ"), within the first hour of the epoch.
FormatUpdated(updated_ms) ==
    LET updated_secs == updated_ms \div 1000
    IN  EpochHourPrefix \o TwoDigits((updated_secs \div 60) % 60) \o <<58>>
        \o TwoDigits(updated_secs % 60) \o ZeroMillisZ

(***************************************************************************)
(* Preview text.  A source text is [id, len, tag, marker, boundary]: its    *)
(* length in bytes, whether it starts (trimmed) with '<', whether it       *)
(* contains "ultrawork" or "mode>", and whether the byte offsets at which  *)
(* the readers cut (100 and 197) lie between two of its characters, as     *)
(* they do in ASCII text.  A preview is the source's first `shown` bytes,  *)
(* with "..." appended when `ellipsis`; `panic` marks a slice &s[..n]      *)
(* taken inside a multi-byte character, which panics: such a preview is    *)
(* never returned, the poll unwinds.                                       *)
(***************************************************************************)
OpenCodePreviewMax == 200
OpenCodePreviewKeep == 197
ClaudePreviewMax == 100

Truncate(text, max, keep) ==
    IF text.len > max
    THEN [src |-> text.id, shown |-> keep, ellipsis |-> TRUE, panic |-> ~text.boundary]
    ELSE [src |-> text.id, shown |-> text.len, ellipsis |-> FALSE, panic |-> FALSE]

(***************************************************************************)
(* agent/opencode.rs: the directory-tree reader                            *)
(***************************************************************************)
CpuThreshold == 5

\* The last element of a sequence among the indices `hits`, as an Option:
\* what a variable assigned at every hit of a loop holds in the end.
LastWhere(seq, hits) ==
    IF hits = {} THEN None
    ELSE Some(seq[CHOOSE k \in hits : \A h \in hits : h <= k])

\* The first element of a sequence among the indices `hits`, as an Option:
\* Iterator::find, or a loop that returns at its first hit.
FirstWhere(seq, hits) ==
    IF hits = {} THEN None
    ELSE Some(seq[CHOOSE k \in hits : \A h \in hits : k <= h])

\* A message text that prefers the reasoning part to the text part.
GetMessageTextReasoningFirst(part_dir) ==
    IF part_dir = None THEN None
    ELSE LET parts == Unwrap(part_dir)
             text_part == LastWhere(parts,
                              {k \in 1..Len(parts) :
                                  parts[k].part_type = "text" /\ IsSome(parts[k].text)})
             reasoning_part == FirstWhere(parts,
                              {k \in 1..Len(parts) :
                                  parts[k].part_type = "reasoning" /\ IsSome(parts[k].text)})
             content == IF IsSome(reasoning_part) THEN Unwrap(reasoning_part).text
                        ELSE IF IsSome(text_part) THEN Unwrap(text_part).text
                        ELSE None
         IN  IF content = None THEN None
             ELSE IF Unwrap(content).tag /\ Unwrap(content).marker THEN None
             ELSE Some(Truncate(Unwrap(content), OpenCodePreviewMax, OpenCodePreviewKeep))

\* part_dir: None when part/<message id> does not exist, else the parts in
\* read_dir order.
GetMessageText(part_dir) ==
    IF part_dir = None THEN None
    ELSE LET parts == Unwrap(part_dir)
             text_part == LastWhere(parts,
                              {k \in 1..Len(parts) :
                                  parts[k].part_type = "text" /\ IsSome(parts[k].text)})
             reasoning_part == FirstWhere(parts,
                              {k \in 1..Len(parts) :
                                  parts[k].part_type = "reasoning" /\ IsSome(parts[k].text)})
             content == IF IsSome(text_part) THEN Unwrap(text_part).text
                        ELSE IF IsSome(reasoning_part) THEN Unwrap(reasoning_part).text
                        ELSE None
         IN  IF content = None THEN None
             ELSE IF Unwrap(content).tag /\ Unwrap(content).marker THEN None
             ELSE Some(Truncate(Unwrap(content), OpenCodePreviewMax, OpenCodePreviewKeep))

\* slice::sort_by, a stable sort: `before` holds the pairs <<i, j>> of
\* indices with cmp(seq[i], seq[j]) == Less.  An element lands after those
\* that compare less and after the earlier ones that compare equal.
SortBy(seq, before) ==
    LET Rank(i) == Cardinality({j \in 1..Len(seq) :
                        \/ <<j, i>> \in before
                        \/ (<<i, j>> \notin before /\ j < i)}) + 1
    IN  [r \in 1..Len(seq) |-> seq[CHOOSE i \in 1..Len(seq) : Rank(i) = r]]

\* message_dir: None when message/<session id> does not exist.  The result
\* is <<role, text, time>>.
GetLastMessage(message_dir) ==
    IF message_dir = None THEN <<None, None, 0>>
    ELSE LET read == Unwrap(message_dir)
             messages == SortBy(read, {ij \in (1..Len(read)) \X (1..Len(read)) :
                                          read[ij[1]].created > read[ij[2]].created})
             shown == FirstWhere(messages,
                                 {k \in 1..Len(messages) :
                                     IsSome(GetMessageText(messages[k].parts))})
         IN  IF IsSome(shown)
             THEN <<Some(Unwrap(shown).role), GetMessageText(Unwrap(shown).parts),
                    Unwrap(shown).created>>
             ELSE <<None, None, 0>>

\* The first session, in read_dir order, of the greatest `updated`.
LatestSession(sessions) ==
    FirstWhere(sessions, {i \in 1..Len(sessions) :
                             \A k \in 1..Len(sessions) :
                                 sessions[k].updated <= sessions[i].updated})

\* A status rule that reads the last role before the CPU usage.
OpenCodeStatusRoleFirst(cpu_usage, last_role) ==
    IF last_role = Some("assistant") THEN "Waiting"
    ELSE IF last_role = Some("user") THEN "Processing"
    ELSE IF cpu_usage > 5 THEN "Processing"
    ELSE "Idle"

OpenCodeStatus(cpu_usage, last_role) ==
    IF cpu_usage > CpuThreshold THEN "Processing"
    ELSE IF last_role = Some("assistant") THEN "Waiting"
    ELSE IF last_role = Some("user") THEN "Processing"
    ELSE "Idle"

\* A preview that uses the title whenever there is one.
DisplayMessageTitleFirst(last_message_text, title) ==
    IF title.len # 0
    THEN Some([src |-> title.id, shown |-> title.len, ellipsis |-> FALSE,
               panic |-> FALSE])
    ELSE last_message_text

\* display_message: the message text, else the title unless it is empty.
DisplayMessage(last_message_text, title) ==
    IF IsSome(last_message_text) THEN last_message_text
    ELSE IF title.len # 0
    THEN Some([src |-> title.id, shown |-> title.len, ellipsis |-> FALSE,
               panic |-> FALSE])
    ELSE None

\* storage.session/<id>: None when the directory does not exist, else the
\* parseable session files in read_dir order.
SessionDir(storage, id) ==
    IF id \in DOMAIN storage.session THEN storage.session[id] ELSE None

\* A Session that reports the CPU usage of a first sample, which is zero.
OpenCodeSessionOfFirstSample(session, process, actual_path, project_name) ==
    LET last == GetLastMessage(session.messages)
    IN  [id |-> session.id,
         agent_type |-> "OpenCode",
         project_name |-> project_name,
         project_path |-> actual_path,
         git_branch |-> None,
         status |-> OpenCodeStatus(0, last[1]),
         last_message |-> DisplayMessage(last[2], session.title),
         last_message_role |-> last[1],
         last_activity_at |-> FormatUpdated(session.updated),
         pid |-> process.pid,
         cpu_usage |-> 0]

\* The Session built from a stored session and the matched process (the
\* constant fields github_url = None and active_subagent_count = 0 are left
\* out).
OpenCodeSessionOf(session, process, actual_path, project_name) ==
    LET last == GetLastMessage(session.messages)
    IN  [id |-> session.id,
         agent_type |-> "OpenCode",
         project_name |-> project_name,
         project_path |-> actual_path,
         git_branch |-> None,
         status |-> OpenCodeStatus(process.cpu_usage, last[1]),
         last_message |-> DisplayMessage(last[2], session.title),
         last_message_role |-> last[1],
         last_activity_at |-> FormatUpdated(session.updated),
         pid |-> process.pid,
         cpu_usage |-> process.cpu_usage]

GetLatestSessionForProject(storage, project, process) ==
    LET session_dir == SessionDir(storage, project.id)
    IN  IF session_dir = None THEN None
        ELSE LET latest_session == LatestSession(Unwrap(session_dir))
             IN  IF latest_session = None THEN None
                 ELSE LET actual_path == IF IsSome(process.cwd)
                                         THEN Unwrap(process.cwd)
                                         ELSE project.worktree
                      IN  Some(OpenCodeSessionOf(Unwrap(latest_session), process,
                                                 actual_path, ProjectName(actual_path)))

\* directory == session.directory
\*     || directory.starts_with(&format!("{}/", session.directory))
DirectoryMatches(directory, session_directory) ==
    \/ directory = session_directory
    \/ StartsWith(directory, session_directory \o <<"/">>)

GetGlobalSessionForDirectory(storage, directory, process) ==
    LET session_dir == SessionDir(storage, "global")
    IN  IF session_dir = None THEN None
        ELSE LET matching == SelectSeq(Unwrap(session_dir),
                                 LAMBDA s : DirectoryMatches(directory, s.directory))
                 latest_session == LatestSession(matching)
             IN  IF latest_session = None THEN None
                 ELSE Some(OpenCodeSessionOf(Unwrap(latest_session), process,
                                             Unwrap(latest_session).directory,
                                             ProjectName(Unwrap(latest_session).directory)))

(***************************************************************************)
(* agent/opencode.rs: the matcher                                          *)
(***************************************************************************)
\* The keys of the cwd -> process HashMap.
CwdKeys(processes) ==
    {Unwrap(processes[k].cwd) : k \in {h \in 1..Len(processes) : IsSome(processes[h].cwd)}}

\* HashMap::insert in list order: the last process of a cwd stays.
CwdToProcess(processes) ==
    [cwd \in CwdKeys(processes) |->
        processes[CHOOSE k \in 1..Len(processes) :
                      /\ processes[k].cwd = Some(cwd)
                      /\ \A h \in 1..Len(processes) :
                             processes[h].cwd = Some(cwd) => h <= k]]

\* The iteration orders a HashMap of these keys may have.
IterationOrders(keys) ==
    {order \in [1..Cardinality(keys) -> keys] :
        \A i, j \in 1..Cardinality(keys) : i # j => order[i] # order[j]}

\* A match in the other direction: the cwd is the worktree or a sandbox, or
\* one of its ancestors.
WorktreeMatchesAncestor(cwd, project) ==
    \/ cwd = project.worktree
    \/ StartsWith(project.worktree, cwd \o <<"/">>)
    \/ \E k \in 1..Len(project.sandboxes) :
           \/ cwd = project.sandboxes[k]
           \/ StartsWith(project.sandboxes[k], cwd \o <<"/">>)

WorktreeMatches(cwd, project) ==
    \/ cwd = project.worktree
    \/ StartsWith(cwd, project.worktree \o <<"/">>)
    \/ \E k \in 1..Len(project.sandboxes) :
           \/ cwd = project.sandboxes[k]
           \/ StartsWith(cwd, project.sandboxes[k] \o <<"/">>)

\* cwd_to_process.iter().find(..).map(|(_, p)| *p), iterating in `order`
MatchingProcess(project, cwd_to_process, order) ==
    LET hit == FirstWhere(order, {k \in 1..Len(order) :
                                     WorktreeMatches(order[k], project)})
    IN  IF hit = None THEN None ELSE Some(cwd_to_process[Unwrap(hit)])

\* The loop over the projects, from project k on: the sessions pushed and
\* the pids inserted in matched_pids.
RECURSIVE ProjectPass(_, _, _, _, _)
ProjectPass(storage, cwd_to_process, order, k, acc) ==
    IF k > Len(storage.projects) THEN acc
    ELSE LET project == storage.projects[k]
             matching_process == MatchingProcess(project, cwd_to_process, order)
         IN  IF project.id = "global" \/ matching_process = None
             THEN ProjectPass(storage, cwd_to_process, order, k + 1, acc)
             ELSE LET process == Unwrap(matching_process)
                      session == GetLatestSessionForProject(storage, project, process)
                  IN  ProjectPass(storage, cwd_to_process, order, k + 1,
                          [sessions |-> acc.sessions \o
                                        (IF IsSome(session) THEN <<Unwrap(session)>>
                                         ELSE <<>>),
                           matched_pids |-> acc.matched_pids \cup {process.pid}])

\* A second pass that looks every process up, matched or not.
RECURSIVE GlobalPassAnyProcess(_, _, _, _)
GlobalPassAnyProcess(storage, processes, matched_pids, k) ==
    IF k > Len(processes) THEN <<>>
    ELSE LET process == processes[k]
             session == IF process.cwd = None THEN None
                        ELSE GetGlobalSessionForDirectory(storage, Unwrap(process.cwd),
                                                          process)
         IN  (IF IsSome(session) THEN <<Unwrap(session)>> ELSE <<>>)
             \o GlobalPassAnyProcess(storage, processes, matched_pids, k + 1)

\* The loop over the processes that the first pass left unmatched.
RECURSIVE GlobalPass(_, _, _, _)
GlobalPass(storage, processes, matched_pids, k) ==
    IF k > Len(processes) THEN <<>>
    ELSE LET process == processes[k]
             session == IF process.pid \in matched_pids \/ process.cwd = None
                        THEN None
                        ELSE GetGlobalSessionForDirectory(storage, Unwrap(process.cwd),
                                                          process)
         IN  (IF IsSome(session) THEN <<Unwrap(session)>> ELSE <<>>)
             \o GlobalPass(storage, processes, matched_pids, k + 1)

GetOpencodeSessions(storage, processes, order) ==
    IF ~storage.exists THEN <<>>
    ELSE LET first == ProjectPass(storage, CwdToProcess(processes), order, 1,
                                  [sessions |-> <<>>, matched_pids |-> {}])
         IN  first.sessions \o GlobalPass(storage, processes, first.matched_pids, 1)

\* OpenCodeDetector::find_sessions
OpenCodeFindSessions(storage, processes, order) ==
    IF Len(processes) = 0 THEN <<>>
    ELSE GetOpencodeSessions(storage, processes, order)

(***************************************************************************)
(* session.rs: the line-delimited reader.  A line is None when it does not *)
(* parse as a JsonlMessage, else Some of a record [session_id, git_branch, *)
(* timestamp, msg_type, message], message being an Option of [role,        *)
(* content] and content an Option of [kind, text, blocks]: a JSON string   *)
(* (kind "string", its text), an array of blocks (kind "array", each block *)
(* with its "type" and an Option "text") or any other JSON value.          *)
(***************************************************************************)
RecentLines == 100

HasToolUse(content) ==
    /\ content.kind = "array"
    /\ \E k \in 1..Len(content.blocks) : content.blocks[k].type = "tool_use"

HasContent(content) ==
    CASE content.kind = "string" -> content.text.len # 0
      [] content.kind = "array" -> Len(content.blocks) # 0
      [] OTHER -> FALSE

\* The displayable text of a content value, as an Option.
ContentText(content) ==
    CASE content.kind = "string" ->
            IF content.text.len # 0 THEN Some(content.text) ELSE None
      [] content.kind = "array" ->
            LET block == FirstWhere(content.blocks,
                             {k \in 1..Len(content.blocks) :
                                 /\ IsSome(content.blocks[k].text)
                                 /\ Unwrap(content.blocks[k].text).len # 0})
            IN  IF IsSome(block) THEN Unwrap(block).text ELSE None
      [] OTHER -> None

\* lines.iter().rev().take(100)
RecentOf(lines) ==
    [k \in 1..(IF Len(lines) < RecentLines THEN Len(lines) ELSE RecentLines) |->
        lines[Len(lines) + 1 - k]]

NoStatusInfo ==
    [session_id |-> None, git_branch |-> None, last_timestamp |-> None,
     last_msg_type |-> None, last_role |-> None, last_has_tool_use |-> FALSE,
     found_status_info |-> FALSE]

\* Whether a line supplies the status signals: it parses and its message
\* has a content that is not empty.
HasStatusInfo(line) ==
    /\ line # None
    /\ IsSome(Unwrap(line).message)
    /\ IsSome(Unwrap(Unwrap(line).message).content)
    /\ HasContent(Unwrap(Unwrap(Unwrap(line).message).content))

\* A first loop that visits every parseable line of the window.
ScannedWholeWindow(recent_lines) ==
    {k \in 1..Len(recent_lines) : recent_lines[k] # None}

\* The parseable lines the first loop visits: it breaks after the first of
\* them at which a session id and the status signals are both known.
Scanned(recent_lines) ==
    LET parsed == {k \in 1..Len(recent_lines) : recent_lines[k] # None}
        stops == {k \in parsed :
                     /\ \E j \in parsed :
                            j <= k /\ IsSome(Unwrap(recent_lines[j]).session_id)
                     /\ \E j \in parsed : j <= k /\ HasStatusInfo(recent_lines[j])}
    IN  IF stops = {} THEN parsed
        ELSE {k \in parsed : \A stop \in stops : k <= stop}

\* The locals after the first loop: each of session_id, git_branch and
\* last_timestamp is assigned while it is None, so it ends as the value of
\* the first visited line that has one; the status signals are those of
\* the first visited line that supplies them.
ScanLines(recent_lines) ==
    LET seen == Scanned(recent_lines)
        with_id == FirstWhere(recent_lines,
                       {k \in seen : IsSome(Unwrap(recent_lines[k]).session_id)})
        with_branch == FirstWhere(recent_lines,
                           {k \in seen : IsSome(Unwrap(recent_lines[k]).git_branch)})
        with_timestamp == FirstWhere(recent_lines,
                              {k \in seen : IsSome(Unwrap(recent_lines[k]).timestamp)})
        with_status == FirstWhere(recent_lines,
                           {k \in seen : HasStatusInfo(recent_lines[k])})
        Msg(line) == Unwrap(Unwrap(line))
    IN  [session_id |-> IF IsSome(with_id) THEN Msg(with_id).session_id
                        ELSE NoStatusInfo.session_id,
         git_branch |-> IF IsSome(with_branch) THEN Msg(with_branch).git_branch
                        ELSE NoStatusInfo.git_branch,
         last_timestamp |-> IF IsSome(with_timestamp) THEN Msg(with_timestamp).timestamp
                            ELSE NoStatusInfo.last_timestamp,
         last_msg_type |-> IF IsSome(with_status) THEN Msg(with_status).msg_type
                           ELSE NoStatusInfo.last_msg_type,
         last_role |-> IF IsSome(with_status) THEN Unwrap(Msg(with_status).message).role
                       ELSE NoStatusInfo.last_role,
         last_has_tool_use |->
             IF IsSome(with_status)
             THEN HasToolUse(Unwrap(Unwrap(Msg(with_status).message).content))
             ELSE NoStatusInfo.last_has_tool_use,
         found_status_info |-> IsSome(with_status)]

\* The second loop: the text of the newest line that has one.
LastMessageText(recent_lines) ==
    LET TextOf(line) ==
            IF line = None \/ Unwrap(line).message = None
               \/ Unwrap(Unwrap(line).message).content = None
            THEN None
            ELSE ContentText(Unwrap(Unwrap(Unwrap(line).message).content))
        hit == FirstWhere(recent_lines, {k \in 1..Len(recent_lines) :
                                            IsSome(TextOf(recent_lines[k]))})
    IN  IF IsSome(hit) THEN TextOf(Unwrap(hit)) ELSE None

\* session.rs's determine_status(last_msg_type, has_tool_use)
SessionDetermineStatus(last_msg_type, has_tool_use) ==
    CASE last_msg_type = Some("assistant") ->
            IF has_tool_use THEN "Processing" ELSE "Waiting"
      [] last_msg_type = Some("user") -> "Thinking"
      [] OTHER -> "Idle"

\* project_dir: a directory entry [name, is_dir, files], files being the
\* directory's entries [jsonl, mtime, lines] in read_dir order.
FindActiveSession(project_dir, path, process) ==
    LET found == SelectSeq(project_dir.files, LAMBDA f : f.jsonl)
        jsonl_files == SortBy(found, {ij \in (1..Len(found)) \X (1..Len(found)) :
                                         found[ij[1]].mtime > found[ij[2]].mtime})
    IN  IF Len(jsonl_files) = 0 THEN None
        ELSE LET recent_lines == RecentOf(jsonl_files[1].lines)
                 info == ScanLines(recent_lines)
                 last_message == LastMessageText(recent_lines)
             IN  IF info.session_id = None THEN None
                 ELSE Some([id |-> Unwrap(info.session_id),
                            agent_type |-> "Claude",
                            project_name |-> ProjectName(path),
                            project_path |-> path,
                            git_branch |-> info.git_branch,
                            status |-> SessionDetermineStatus(info.last_msg_type,
                                                              info.last_has_tool_use),
                            last_message |->
                                IF IsSome(last_message)
                                THEN Some(Truncate(Unwrap(last_message),
                                                   ClaudePreviewMax, ClaudePreviewMax))
                                ELSE None,
                            last_message_role |-> info.last_role,
                            last_activity_at |-> IF IsSome(info.last_timestamp)
                                                 THEN Unwrap(info.last_timestamp)
                                                 ELSE Unknown,
                            pid |-> process.pid,
                            cpu_usage |-> process.cpu_usage])

(***************************************************************************)
(* session.rs: the project scan, and the sort and the counts                *)
(***************************************************************************)
\* The loop over the entries of ~/.claude/projects, from entry k on.
RECURSIVE ScanProjects(_, _, _)
ScanProjects(entries, cwd_to_process, k) ==
    IF k > Len(entries) THEN <<>>
    ELSE LET entry == entries[k]
             path == ConvertDirNameToPath(entry.name)
             session == IF entry.is_dir /\ path \in DOMAIN cwd_to_process
                        THEN FindActiveSession(entry, path, cwd_to_process[path])
                        ELSE None
         IN  (IF IsSome(session) THEN <<Unwrap(session)>> ELSE <<>>)
             \o ScanProjects(entries, cwd_to_process, k + 1)

\* The sessions of the Claude family: none when the projects root is absent.
ClaudeFindSessions(claude_dir, processes) ==
    IF ~claude_dir.exists THEN <<>>
    ELSE ScanProjects(claude_dir.entries, CwdToProcess(processes), 1)

\* A comparator that puts the oldest activity first within a tier.
SessionBeforeOldestFirst(a, b) ==
    LET priority_a == StatusSortPriority(a.status)
        priority_b == StatusSortPriority(b.status)
    IN  IF priority_a # priority_b THEN priority_a < priority_b
        ELSE StrLess(a.last_activity_at, b.last_activity_at)

\* The comparator of both sorts: cmp(a, b) == Less
SessionBefore(a, b) ==
    LET priority_a == StatusSortPriority(a.status)
        priority_b == StatusSortPriority(b.status)
    IN  IF priority_a # priority_b THEN priority_a < priority_b
        ELSE StrLess(b.last_activity_at, a.last_activity_at)

\* sessions.sort_by(..) with that comparator
SortSessions(sessions) ==
    SortBy(sessions, {ij \in (1..Len(sessions)) \X (1..Len(sessions)) :
                         SessionBefore(sessions[ij[1]], sessions[ij[2]])})

\* A count of the sessions that are not active: Waiting and Idle.
WaitingCountNotActive(sessions) ==
    Cardinality({k \in 1..Len(sessions) : sessions[k].status \in {"Waiting", "Idle"}})

WaitingCount(sessions) ==
    Cardinality({k \in 1..Len(sessions) : sessions[k].status = "Waiting"})

MakeResponse(sessions) ==
    [sessions |-> sessions,
     total_count |-> Len(sessions),
     waiting_count |-> WaitingCount(sessions)]

\* session.rs's get_sessions()
GetSessions(claude_dir, processes) ==
    IF ~claude_dir.exists
    THEN [sessions |-> <<>>, total_count |-> 0, waiting_count |-> 0]
    ELSE MakeResponse(SortSessions(ScanProjects(claude_dir.entries,
                                                CwdToProcess(processes), 1)))

(***************************************************************************)
(* agent/mod.rs: the aggregator                                            *)
(***************************************************************************)
GetAllSessions(claude_dir, claude_procs, storage, opencode_procs, order) ==
    LET all_sessions == ClaudeFindSessions(claude_dir, claude_procs)
                        \o OpenCodeFindSessions(storage, opencode_procs, order)
    IN  MakeResponse(SortSessions(all_sessions))

(***************************************************************************)
(* Inputs of the pure functions                                            *)
(***************************************************************************)
MaxNameLen == 5

Words == {"Users", "Projects", "UnityProjects", "ai"}

NameSymbols == Words \cup {"-"}

\* Two adjacent words would be one longer word.
WellFormed(s) == \A k \in 1..(Len(s) - 1) : ~(s[k] \in Words /\ s[k + 1] \in Words)

BoundedNames ==
    {s \in UNION {[1..n -> NameSymbols] : n \in 0..MaxNameLen} : WellFormed(s)}

\* The directory names of session.rs's unit test.
TestNameWorktree ==
    <<"-", "Users", "-", "ozan", "-", "Projects", "-", "ai", "-", "image", "-",
      "dashboard", "-", "-", "rsworktree", "-", "feature">>

TestNames ==
    { <<"-", "Users", "-", "ozan", "-", "Projects", "-", "ai", "-", "image", "-", "dashboard">>,
      <<"-", "Users", "-", "ozan", "-", "Projects", "-", "backend", "-", "service", "-",
        "generator", "-", "ai">>,
      <<"-", "Users", "-", "ozan", "-", "UnityProjects", "-", "my", "-", "game">>,
      TestNameWorktree,
      <<"-", "Users", "-", "ozan", "-", "Projects">> }

SignalSpace ==
    [last_msg_type : MsgTypes, has_tool_use : BOOLEAN, has_tool_result : BOOLEAN,
     is_local_command : BOOLEAN, is_interrupted : BOOLEAN,
     file_recently_modified : BOOLEAN]

NoSignals ==
    [last_msg_type |-> None, has_tool_use |-> FALSE, has_tool_result |-> FALSE,
     is_local_command |-> FALSE, is_interrupted |-> FALSE,
     file_recently_modified |-> FALSE]

(***************************************************************************)
(* The worlds a poll runs in: processes and transcript stores              *)
(***************************************************************************)
MaxClaudeProcs == 1
MaxOpenCodeProcs == 2
MaxAggregateProcs == 1

\* CPU percentages at and above the threshold.
CpuSet == {5, 6}

PA == <<"/", "Projects", "/", "a">>
PAX == PA \o <<"/", "x">>
PAY == PA \o <<"/", "y">>

\* Processes [pid, cpu_usage, cwd]; the pids of one enumeration differ.
ProcessLists(first_pid, max, cwds) ==
    UNION {{[k \in 1..n |-> [pid |-> first_pid + k, cpu_usage |-> f[k][1],
                              cwd |-> f[k][2]]] :
               f \in [1..n -> CpuSet \X cwds]} : n \in 0..max}

NoProcesses == <<>>

\* --- line-delimited transcripts ---
\* An ASCII text that is no boilerplate.
Text(id, len) == [id |-> id, len |-> len, tag |-> FALSE, marker |-> FALSE, boundary |-> TRUE]

NoText == Text("", 0)
ShortText == Text("fix the login", 13)

StringContent(text) == [kind |-> "string", text |-> text, blocks |-> <<>>]
ArrayContent(blocks) == [kind |-> "array", text |-> NoText, blocks |-> blocks]

Line(session_id, timestamp, msg_type, content) ==
    Some([session_id |-> session_id, git_branch |-> Some(<<"main">>),
          timestamp |-> timestamp, msg_type |-> Some(msg_type),
          message |-> Some([role |-> Some(msg_type), content |-> Some(content)])])

SessionId == Some(<<"s1">>)

UserLine(ms) == Line(SessionId, Some(FormatUpdated(ms)), "user", StringContent(ShortText))

ToolUseLine(ms) ==
    Line(SessionId, Some(FormatUpdated(ms)), "assistant",
         ArrayContent(<<[type |-> "tool_use", text |-> None]>>))

TextLine(timestamp) ==
    Line(SessionId, timestamp, "assistant",
         ArrayContent(<<[type |-> "text", text |-> Some(ShortText)]>>))

JsonlFile(mtime, lines) == [jsonl |-> TRUE, mtime |-> mtime, lines |-> lines]

\* File times are seconds; the polls happen ten minutes after the oldest.
PollTime == 10 * 60 + 2

\* The contents of a project directory: its last record is a tool use (in
\* a file touched ten minutes or one second before the poll), a user
\* message, an assistant text without timestamp, or a record without
\* session id next to an unparseable line.
ClaudeTranscripts ==
    { <<JsonlFile(2, <<UserLine(1000), ToolUseLine(2000)>>)>>,
      <<JsonlFile(PollTime - 1, <<UserLine(1000), ToolUseLine(2000)>>)>>,
      <<JsonlFile(1, <<UserLine(1000)>>),
        JsonlFile(3, <<TextLine(Some(FormatUpdated(2000))), UserLine(3000)>>)>>,
      <<JsonlFile(4, <<UserLine(4000), TextLine(None)>>)>>,
      <<JsonlFile(5, <<None, Line(None, None, "user", StringContent(ShortText))>>)>> }

\* Directory names that decode to PA, with and without the leading dash.
ClaudeNames == { <<"-", "Projects", "-", "a">>, <<"Projects", "-", "a">> }

ClaudeEntries ==
    {[name |-> n, is_dir |-> TRUE, files |-> t] : n \in ClaudeNames, t \in ClaudeTranscripts}

\* The entries of a directory have different names.
ClaudeEntryLists ==
    {l \in UNION {[1..n -> ClaudeEntries] : n \in 0..Cardinality(ClaudeNames)} :
        \A i, j \in 1..Len(l) : i # j => l[i].name # l[j].name}

ClaudeDirs ==
    {[exists |-> FALSE, entries |-> <<>>]}
    \cup {[exists |-> TRUE, entries |-> l] : l \in ClaudeEntryLists}

\* --- directory-tree transcripts ---
Title == Text("Fix login bug", 13)
Boilerplate ==
    [id |-> "<ultrawork-mode>", len |-> 16, tag |-> TRUE, marker |-> TRUE, boundary |-> TRUE]

TextPart(text) == [part_type |-> "text", text |-> Some(text)]

Message(role, created, parts) == [role |-> role, created |-> created, parts |-> parts]

UserMessage(created) == Message("user", created, Some(<<TextPart(ShortText)>>))
AssistantMessage(created) == Message("assistant", created, Some(<<TextPart(ShortText)>>))

StoredSession(id, directory, updated, messages) ==
    [id |-> id, directory |-> directory, title |-> Title, updated |-> updated,
     messages |-> messages]

\* The session directory of project `id`: absent; one session last
\* answered by the assistant; or two sessions, the older last written by
\* the user and the newer without messages.
SessionDirs(id, directory) ==
    { None,
      Some(<<StoredSession(<<"ses_a", "_", id>>, directory, 1000,
                           Some(<<UserMessage(1), AssistantMessage(2)>>))>>),
      Some(<<StoredSession(<<"ses_u", "_", id>>, directory, 2000,
                           Some(<<AssistantMessage(1), UserMessage(2)>>)),
             StoredSession(<<"ses_n", "_", id>>, directory, 3000, None)>>) }

\* session/global: absent; one session of directory PA; or also a newer
\* one whose directory field is missing (the empty default).
GlobalSessionDirs ==
    { None,
      Some(<<StoredSession(<<"ses_g">>, PA, 1500,
                           Some(<<UserMessage(1), AssistantMessage(2)>>))>>),
      Some(<<StoredSession(<<"ses_g">>, PA, 1500,
                           Some(<<UserMessage(1), AssistantMessage(2)>>)),
             StoredSession(<<"ses_e">>, <<>>, 2500,
                           Some(<<Message("user", 1, Some(<<TextPart(Boilerplate)>>))>>))>>) }

\* Project files: nested worktrees PA and PAX, the latter with the sandbox
\* PAY, and the "global" project.
ProjectKinds ==
    { [worktree |-> PA, sandboxes |-> <<>>, global |-> FALSE],
      [worktree |-> PAX, sandboxes |-> <<PAY>>, global |-> FALSE],
      [worktree |-> <<"/">>, sandboxes |-> <<>>, global |-> TRUE] }

ProjectIds == <<"p1", "p2">>

ProjectOf(kind, k) ==
    [id |-> IF kind.global THEN "global" ELSE ProjectIds[k],
     worktree |-> kind.worktree, sandboxes |-> kind.sandboxes]

\* The project files of a store describe different worktrees.
ProjectLists ==
    UNION {{[k \in 1..n |-> ProjectOf(f[k], k)] :
               f \in {g \in [1..n -> ProjectKinds] :
                          \A i, j \in 1..n : i # j => g[i] # g[j]}} :
              n \in 0..Len(ProjectIds)}

NoStorage == [exists |-> FALSE, projects |-> <<>>, session |-> [i \in {} |-> None]]

SessionMaps(projects) ==
    LET ids == {projects[k].id : k \in 1..Len(projects)} \ {"global"}
        WorktreeOf(i) == projects[CHOOSE k \in 1..Len(projects) :
                                      projects[k].id = i].worktree
        Dirs(i) == IF i = "global" THEN GlobalSessionDirs
                   ELSE SessionDirs(i, WorktreeOf(i))
    IN  {m \in [ids \cup {"global"} -> UNION {Dirs(i) : i \in ids \cup {"global"}}] :
            \A i \in DOMAIN m : m[i] \in Dirs(i)}

OpenCodeStorages ==
    {NoStorage}
    \cup UNION {{[exists |-> TRUE, projects |-> l, session |-> m] : m \in SessionMaps(l)} :
                   l \in ProjectLists}

\* The stores of the aggregate polls: none; a project at PAX and a global
\* session of PA; a project at PAX with the sandbox PAY and both global
\* sessions.
AggregateStorages ==
    { NoStorage,
      [exists |-> TRUE,
       projects |-> <<ProjectOf([worktree |-> PAX, sandboxes |-> <<>>, global |-> FALSE], 1)>>,
       session |-> [i \in {"p1", "global"} |->
                       IF i = "p1"
                       THEN Some(<<StoredSession(<<"ses_a", "_", "p1">>, PAX, 1000,
                                      Some(<<UserMessage(1), AssistantMessage(2)>>))>>)
                       ELSE Some(<<StoredSession(<<"ses_g">>, PA, 1500,
                                      Some(<<UserMessage(1), AssistantMessage(2)>>))>>)]],
      [exists |-> TRUE,
       projects |-> <<ProjectOf([worktree |-> PAX, sandboxes |-> <<PAY>>, global |-> FALSE], 1)>>,
       session |-> [i \in {"p1", "global"} |->
                       IF i = "p1"
                       THEN Some(<<StoredSession(<<"ses_u", "_", "p1">>, PAX, 2000,
                                      Some(<<AssistantMessage(1), UserMessage(2)>>)),
                                   StoredSession(<<"ses_n", "_", "p1">>, PAX, 3000, None)>>)
                       ELSE None]] }

MaxCallers == 2

\* No process enumeration has run.
NoSampling ==
    /\ now = 0
    /\ busy = [family \in {"Claude", "OpenCode"} |-> FALSE]
    /\ opencode_system = [lock |-> None, system |-> None]
    /\ systems_created = [family \in {"Claude", "OpenCode"} |-> 0]
    /\ polls = [family \in {"Claude", "OpenCode"} |-> <<>>]
    /\ pc = [caller \in 1..MaxCallers |-> "idle"]

NoPureCall ==
    /\ signals = NoSignals
    /\ status_result = None
    /\ dir_name = <<>>
    /\ project_path = None

NoWorld ==
    /\ claude_processes = NoProcesses
    /\ claude_projects = [exists |-> FALSE, entries |-> <<>>]
    /\ opencode_processes = NoProcesses
    /\ opencode_storage = NoStorage
    /\ operation = "none"
    /\ response = None
    /\ NoSampling

(***************************************************************************)
(* Spec: polls of the aggregator (agent/mod.rs) and of session.rs's        *)
(* get_sessions over both families' worlds                                 *)
(***************************************************************************)
Init ==
    /\ claude_processes \in ProcessLists(100, MaxClaudeProcs, {None, Some(PA)})
    /\ claude_projects \in ClaudeDirs
    /\ opencode_processes \in ProcessLists(200, MaxAggregateProcs, {None, Some(PAX)})
    /\ opencode_storage \in AggregateStorages
    /\ operation = "none"
    /\ response = None
    /\ NoPureCall
    /\ NoSampling

\* What a poll that computes `result` returns: nothing when the slice of a
\* preview panicked on the way.
Returned(result) ==
    IF \E k \in 1..Len(result.sessions) :
           /\ IsSome(result.sessions[k].last_message)
           /\ Unwrap(result.sessions[k].last_message).panic
    THEN None
    ELSE Some(result)

\* One poll of get_all_sessions(); the HashMap of a poll iterates in any
\* order.
CallGetAllSessions ==
    /\ \E order \in IterationOrders(CwdKeys(opencode_processes)) :
           response' = Returned(GetAllSessions(claude_projects, claude_processes,
                                               opencode_storage, opencode_processes, order))
    /\ operation' = "get_all_sessions"
    /\ UNCHANGED <<pure_vars, world_vars, sampler_vars>>

\* One poll of session.rs's get_sessions()
CallGetSessions ==
    /\ response' = Returned(GetSessions(claude_projects, claude_processes))
    /\ operation' = "get_sessions"
    /\ UNCHANGED <<pure_vars, world_vars, sampler_vars>>

Next == CallGetAllSessions \/ CallGetSessions

Spec == Init /\ [][Next]_vars

(***************************************************************************)
(* SpecOpenCode: polls over the worlds of the directory-tree family        *)
(***************************************************************************)
InitOpenCode ==
    /\ claude_processes = NoProcesses
    /\ claude_projects = [exists |-> FALSE, entries |-> <<>>]
    /\ opencode_processes \in
           ProcessLists(200, MaxOpenCodeProcs, {None, Some(PA), Some(PAX), Some(PAY)})
    /\ opencode_storage \in OpenCodeStorages
    /\ operation = "none"
    /\ response = None
    /\ NoPureCall
    /\ NoSampling

NextOpenCode == CallGetAllSessions

SpecOpenCode == InitOpenCode /\ [][NextOpenCode]_vars

(***************************************************************************)
(* SpecStatus: one call of determine_status on any argument tuple          *)
(***************************************************************************)
InitStatus ==
    /\ signals \in SignalSpace
    /\ status_result = None
    /\ dir_name = <<>>
    /\ project_path = None
    /\ NoWorld

CallDetermineStatus ==
    /\ status_result = None
    /\ status_result' = Some(DetermineStatus(signals.last_msg_type, signals.has_tool_use,
                                             signals.has_tool_result,
                                             signals.is_local_command,
                                             signals.is_interrupted,
                                             signals.file_recently_modified))
    /\ UNCHANGED <<signals, dir_name, project_path, world_vars, poll_vars, sampler_vars>>

NextStatus == CallDetermineStatus

SpecStatus == InitStatus /\ [][NextStatus]_vars

(***************************************************************************)
(* SpecCodec: one call of convert_dir_name_to_path on any bounded name     *)
(***************************************************************************)
InitCodec ==
    /\ dir_name \in BoundedNames \cup TestNames
    /\ project_path = None
    /\ signals = NoSignals
    /\ status_result = None
    /\ NoWorld

CallConvertDirNameToPath ==
    /\ project_path = None
    /\ project_path' = Some(ConvertDirNameToPath(dir_name))
    /\ UNCHANGED <<dir_name, signals, status_result, world_vars, poll_vars, sampler_vars>>

NextCodec == CallConvertDirNameToPath

SpecCodec == InitCodec /\ [][NextCodec]_vars

(***************************************************************************)
(* SpecTranscript: polls over one process and one transcript of either     *)
(* family, the transcript being any bounded sequence of records            *)
(***************************************************************************)
MaxLines == 2
MaxMessages == 2

\* A text in which a multi-byte character straddles the offset at which
\* the reader cuts.
Wide(id, len) == [id |-> id, len |-> len, tag |-> FALSE, marker |-> FALSE, boundary |-> FALSE]

Thought == Text("the user wants a fix", 20)

\* --- one line-delimited transcript ---
\* What a record says: nothing (no message field), a user text, or an
\* assistant tool use.
NoMessage == [msg_type |-> None, message |-> None]
UserSays(text) ==
    [msg_type |-> Some("user"),
     message |-> Some([role |-> Some("user"), content |-> Some(StringContent(text))])]
AssistantToolUse ==
    [msg_type |-> Some("assistant"),
     message |-> Some([role |-> Some("assistant"),
                       content |-> Some(ArrayContent(<<[type |-> "tool_use",
                                                        text |-> None]>>))])]

Record(session_id, git_branch, says) ==
    Some([session_id |-> session_id, git_branch |-> git_branch,
          timestamp |-> Some(FormatUpdated(1000)), msg_type |-> says.msg_type,
          message |-> says.message])

\* The lines of a transcript: unparseable, or a record whose sessionId and
\* gitBranch are absent, empty (as gitBranch is outside a git repository)
\* or a name.
Records ==
    {None}
    \cup {Record(i, b, c) : i \in {None, Some(<<>>), Some(<<"s1">>)},
                            b \in {None, Some(<<>>), Some(<<"main">>)},
                            c \in {NoMessage, UserSays(ShortText), AssistantToolUse}}

\* A transcript of n lines of which only the oldest parses.
OldestOnly(n) ==
    [k \in 1..n |-> IF k = 1 THEN Record(Some(<<"s1">>), Some(<<"main">>), UserSays(ShortText))
                    ELSE None]

LineTranscripts ==
    UNION {[1..n -> Records] : n \in 0..MaxLines}
    \cup {<<Record(Some(<<"s1">>), None, UserSays(t))>> :
              t \in {Text("100 bytes of ASCII", 100), Text("101 bytes of ASCII", 101),
                     Wide("a, then 50 times e-acute", 101)}}
    \cup {OldestOnly(RecentLines), OldestOnly(RecentLines + 1)}

\* --- one directory-tree transcript ---
ReasoningPart(text) == [part_type |-> "reasoning", text |-> Some(text)]

\* The part directory of a message: absent; empty; a text; a reasoning
\* before a text; a reasoning only; boilerplate, alone or before a
\* reasoning; a text part without text before a reasoning.
PartDirs ==
    { None,
      Some(<<>>),
      Some(<<TextPart(ShortText)>>),
      Some(<<ReasoningPart(Thought), TextPart(ShortText)>>),
      Some(<<ReasoningPart(Thought)>>),
      Some(<<TextPart(Boilerplate)>>),
      Some(<<TextPart(Boilerplate), ReasoningPart(Thought)>>),
      Some(<<[part_type |-> "text", text |-> None], ReasoningPart(Thought)>>) }

MessageDirs ==
    LET messages == {Message(r, c, p) : r \in {"user", "assistant"}, c \in {1, 2},
                                        p \in PartDirs}
    IN  {None}
        \cup {Some(m) : m \in UNION {[1..n -> messages] : n \in 0..MaxMessages}}
        \cup {Some(<<Message("assistant", 1, Some(<<TextPart(t)>>))>>) :
                  t \in {Text("200 bytes of ASCII", 200), Text("201 bytes of ASCII", 201),
                         Wide("67 times the euro sign", 201)}}

\* The title of a session: present, missing, or 250 bytes long.
Titles == {Title, NoText, Text("a title of 250 bytes", 250)}

TitledSession(title, messages) ==
    [id |-> <<"ses_t">>, directory |-> PA, title |-> title, updated |-> 1000,
     messages |-> messages]

InitTranscript ==
    /\ \/ /\ claude_processes = <<[pid |-> 101, cpu_usage |-> 5, cwd |-> Some(PA)]>>
          /\ \E lines \in LineTranscripts :
                 claude_projects =
                     [exists |-> TRUE,
                      entries |-> <<[name |-> <<"-", "Projects", "-", "a">>, is_dir |-> TRUE,
                                     files |-> <<JsonlFile(PollTime - 1, lines)>>]>>]
          /\ opencode_processes = NoProcesses
          /\ opencode_storage = NoStorage
       \/ /\ claude_processes = NoProcesses
          /\ claude_projects = [exists |-> FALSE, entries |-> <<>>]
          /\ opencode_processes = <<[pid |-> 201, cpu_usage |-> 5, cwd |-> Some(PA)]>>
          /\ \E title \in Titles, messages \in MessageDirs :
                 opencode_storage =
                     [exists |-> TRUE,
                      projects |-> <<ProjectOf([worktree |-> PA, sandboxes |-> <<>>,
                                                global |-> FALSE], 1)>>,
                      session |-> [i \in {"p1", "global"} |->
                                      IF i = "p1"
                                      THEN Some(<<TitledSession(title, messages)>>)
                                      ELSE None]]
    /\ operation = "none"
    /\ response = None
    /\ NoPureCall
    /\ NoSampling

NextTranscript == CallGetAllSessions \/ CallGetSessions

SpecTranscript == InitTranscript /\ [][NextTranscript]_vars

(***************************************************************************)
(* SpecSampling: the process enumerations of both families over time.      *)
(* Each family has one process; a sysinfo::System holds, for a process,    *)
(* the time and the CPU time of its last sample and the CPU usage computed *)
(* from the last two.  find_opencode_processes is run by MaxCallers        *)
(* threads, one step per statement; find_claude_processes touches nothing  *)
(* shared and is one step.                                                 *)
(***************************************************************************)
MaxTime == 3
MaxPolls == 3

\* System::new_with_specifics(..with_processes..): the first sample of the
\* family's process, whose CPU usage is zero for want of an earlier one.
NewSystem(family) ==
    [at |-> now, cpu_time |-> IF busy[family] THEN now ELSE 0, cpu_usage |-> 0]

\* refresh_processes: a new sample, and the usage (in percent) over the
\* time since the last one; nothing when no time has passed.
RefreshProcesses(system, family) ==
    IF now = system.at THEN system
    ELSE [at |-> now,
          cpu_time |-> IF busy[family] THEN now ELSE 0,
          cpu_usage |-> (100 * ((IF busy[family] THEN now ELSE 0) - system.cpu_time))
                            \div (now - system.at)]

\* Time passes.
Tick ==
    /\ now < MaxTime
    /\ now' = now + 1
    /\ UNCHANGED <<busy, opencode_system, systems_created, polls, pc>>
    /\ UNCHANGED <<pure_vars, world_vars, poll_vars>>

\* process/claude.rs (and process.rs): a System of its own in every call.
FindClaudeProcesses ==
    /\ Len(polls["Claude"]) < MaxPolls
    /\ LET system == RefreshProcesses(NewSystem("Claude"), "Claude")
       IN  /\ claude_processes' = <<[pid |-> 101, cpu_usage |-> system.cpu_usage,
                                     cwd |-> Some(PA)]>>
           /\ polls' = [polls EXCEPT !["Claude"] = Append(@, system.at)]
    /\ systems_created' = [systems_created EXCEPT !["Claude"] = @ + 1]
    /\ UNCHANGED <<now, busy, opencode_system, pc>>
    /\ UNCHANGED <<pure_vars, claude_projects, opencode_processes, opencode_storage, poll_vars>>

\* A thread calls find_opencode_processes and reaches lock().
Call(caller) ==
    /\ pc[caller] = "idle"
    /\ Len(polls["OpenCode"]) + Cardinality({c \in DOMAIN pc : pc[c] # "idle"}) < MaxPolls
    /\ pc' = [pc EXCEPT ![caller] = "waiting"]
    /\ UNCHANGED <<now, busy, opencode_system, systems_created, polls>>
    /\ UNCHANGED <<pure_vars, world_vars, poll_vars>>

\* A lock that every caller gets at once.
CanLockAlways(caller) == TRUE

\* Mutex::lock returns when no thread holds the guard.
CanLock(caller) == opencode_system.lock = None

\* OPENCODE_SYSTEM.lock().unwrap()
Lock(caller) ==
    /\ pc[caller] = "waiting"
    /\ CanLock(caller)
    /\ opencode_system' = [opencode_system EXCEPT !.lock = Some(caller)]
    /\ pc' = [pc EXCEPT ![caller] = "locked"]
    /\ UNCHANGED <<now, busy, systems_created, polls>>
    /\ UNCHANGED <<pure_vars, world_vars, poll_vars>>

\* system_guard.get_or_insert_with(..)
GetOrInsert(caller) ==
    /\ pc[caller] = "locked"
    /\ IF opencode_system.system = None
       THEN /\ opencode_system' =
                   [opencode_system EXCEPT !.system = Some(NewSystem("OpenCode"))]
            /\ systems_created' = [systems_created EXCEPT !["OpenCode"] = @ + 1]
       ELSE UNCHANGED <<opencode_system, systems_created>>
    /\ pc' = [pc EXCEPT ![caller] = "initialised"]
    /\ UNCHANGED <<now, busy, polls>>
    /\ UNCHANGED <<pure_vars, world_vars, poll_vars>>

\* system.refresh_processes_specifics(..)
Refresh(caller) ==
    /\ pc[caller] = "initialised"
    /\ opencode_system' =
           [opencode_system EXCEPT
                !.system = Some(RefreshProcesses(Unwrap(opencode_system.system), "OpenCode"))]
    /\ pc' = [pc EXCEPT ![caller] = "refreshed"]
    /\ UNCHANGED <<now, busy, systems_created, polls>>
    /\ UNCHANGED <<pure_vars, world_vars, poll_vars>>

\* The loop over system.processes() and the return, which drops the guard.
Read(caller) ==
    /\ pc[caller] = "refreshed"
    /\ opencode_processes' =
           <<[pid |-> 201, cpu_usage |-> Unwrap(opencode_system.system).cpu_usage,
              cwd |-> Some(PA)]>>
    /\ polls' = [polls EXCEPT !["OpenCode"] = Append(@, Unwrap(opencode_system.system).at)]
    /\ opencode_system' = [opencode_system EXCEPT !.lock = None]
    /\ pc' = [pc EXCEPT ![caller] = "idle"]
    /\ UNCHANGED <<now, busy, systems_created>>
    /\ UNCHANGED <<pure_vars, claude_processes, claude_projects, opencode_storage, poll_vars>>

InitSampling ==
    /\ now = 0
    /\ busy \in [{"Claude", "OpenCode"} -> BOOLEAN]
    /\ opencode_system = [lock |-> None, system |-> None]
    /\ systems_created = [family \in {"Claude", "OpenCode"} |-> 0]
    /\ polls = [family \in {"Claude", "OpenCode"} |-> <<>>]
    /\ pc = [caller \in 1..MaxCallers |-> "idle"]
    /\ claude_processes = NoProcesses
    /\ claude_projects = [exists |-> FALSE, entries |-> <<>>]
    /\ opencode_processes = NoProcesses
    /\ opencode_storage = NoStorage
    /\ operation = "none"
    /\ response = None
    /\ NoPureCall

NextSampling ==
    \/ Tick
    \/ FindClaudeProcesses
    \/ \E caller \in 1..MaxCallers :
           \/ Call(caller)
           \/ Lock(caller)
           \/ GetOrInsert(caller)
           \/ Refresh(caller)
           \/ Read(caller)

SpecSampling == InitSampling /\ [][NextSampling]_vars

(***************************************************************************)
(* Properties                                                              *)
(***************************************************************************)
Sessions == IF response = None THEN <<>> ELSE Unwrap(response).sessions

\* The processes enumerated for a family in the poll.
FamilyProcesses(agent_type) ==
    IF agent_type = "Claude" THEN claude_processes ELSE opencode_processes

ProcessesOfPid(agent_type, pid) ==
    {k \in 1..Len(FamilyProcesses(agent_type)) : FamilyProcesses(agent_type)[k].pid = pid}

\* Neither directory equals the other or lies inside it.
Disjoint(cwd_a, cwd_b) ==
    /\ cwd_a # cwd_b
    /\ ~StartsWith(cwd_a, cwd_b \o <<"/">>)
    /\ ~StartsWith(cwd_b, cwd_a \o <<"/">>)

\* C1 (as claimed): in the result of a poll no two Sessions of one family
\* carry the same pid.  The code breaks it: the project scan pushes one
\* Session per project directory whose decoded name is the cwd of a
\* process, and the per-project pass never consults matched_pids, so one
\* process inside two nested worktrees is reported twice.
C1_NoPidInTwoSessions ==
    \A i, j \in 1..Len(Sessions) :
        (i # j /\ Sessions[i].agent_type = Sessions[j].agent_type)
            => Sessions[i].pid # Sessions[j].pid

\* A process has a transcript to be matched to: a project directory whose
\* decoded name is its working directory (line-delimited family), or a
\* project whose worktree or sandbox holds its working directory or a
\* global session whose directory does (directory-tree family).
HasTranscript(agent_type, process) ==
    /\ IsSome(process.cwd)
    /\ IF agent_type = "Claude"
       THEN /\ claude_projects.exists
            /\ \E k \in 1..Len(claude_projects.entries) :
                   ConvertDirNameToPath(claude_projects.entries[k].name) = Unwrap(process.cwd)
       ELSE /\ opencode_storage.exists
            /\ \/ \E k \in 1..Len(opencode_storage.projects) :
                      /\ opencode_storage.projects[k].id # "global"
                      /\ WorktreeMatches(Unwrap(process.cwd), opencode_storage.projects[k])
               \/ /\ IsSome(SessionDir(opencode_storage, "global"))
                  /\ \E k \in 1..Len(Unwrap(SessionDir(opencode_storage, "global"))) :
                         DirectoryMatches(Unwrap(process.cwd),
                             Unwrap(SessionDir(opencode_storage, "global"))[k].directory)

\* C2: every Session of a response carries the pid and the cpu_usage of
\* exactly one process enumerated for its family in that poll; a process
\* that has no transcript to be matched to contributes no Session; a family
\* without live processes contributes no Session.
C2_SessionsAreObservedProcesses ==
    /\ \A i \in 1..Len(Sessions) :
           LET s == Sessions[i]
               procs == FamilyProcesses(s.agent_type)
           IN  /\ Cardinality(ProcessesOfPid(s.agent_type, s.pid)) = 1
               /\ \A k \in ProcessesOfPid(s.agent_type, s.pid) :
                      procs[k].cpu_usage = s.cpu_usage
    /\ \A family \in {"Claude", "OpenCode"} :
           /\ \A k \in 1..Len(FamilyProcesses(family)) :
                  ~HasTranscript(family, FamilyProcesses(family)[k])
                      => \A i \in 1..Len(Sessions) :
                             ~(/\ Sessions[i].agent_type = family
                               /\ Sessions[i].pid = FamilyProcesses(family)[k].pid)
           /\ Len(FamilyProcesses(family)) = 0
                  => \A i \in 1..Len(Sessions) : Sessions[i].agent_type # family

\* C2's case: an aggregate poll returned a Session while a live process of
\* the other family, having no transcript, was dropped.
C2_Witness ==
    /\ operation = "get_all_sessions"
    /\ \E i \in 1..Len(Sessions) : Sessions[i].agent_type = "Claude"
    /\ \E k \in 1..Len(opencode_processes) :
           /\ ~HasTranscript("OpenCode", opencode_processes[k])
           /\ \A i \in 1..Len(Sessions) : Sessions[i].pid # opencode_processes[k].pid

\* The working directory of the process a Session of the directory-tree
\* family was matched to.
CwdOfSession(s) ==
    Unwrap(opencode_processes[CHOOSE k \in 1..Len(opencode_processes) :
                                  opencode_processes[k].pid = s.pid].cwd)

\* C3 (as claimed): no stored session, the global project's included, is
\* reported for two processes of disjoint working directories.  The code
\* breaks it: the global pass gives every unmatched process the latest
\* global session whose directory holds its cwd, so two processes in
\* sibling subdirectories of that directory report the same session.
C3_DisjointProcessesDistinctSessions ==
    \A i, j \in 1..Len(Sessions) :
        (/\ i # j
         /\ Sessions[i].agent_type = "OpenCode"
         /\ Sessions[j].agent_type = "OpenCode"
         /\ Sessions[i].pid # Sessions[j].pid
         /\ Disjoint(CwdOfSession(Sessions[i]), CwdOfSession(Sessions[j])))
            => Sessions[i].id # Sessions[j].id

\* The tiers of the sort as the specification names them.
Tier(status) ==
    IF status \in {"Processing", "Thinking"} THEN 1
    ELSE IF status = "Waiting" THEN 2
    ELSE 3

C5_CountsMatchList ==
    response # None =>
        /\ Unwrap(response).total_count = Len(Sessions)
        /\ Unwrap(response).waiting_count =
               Cardinality({i \in 1..Len(Sessions) : Sessions[i].status = "Waiting"})
        /\ Unwrap(response).waiting_count <= Unwrap(response).total_count

\* C5's case: a response with a Waiting session, an Idle one and an active
\* one.
C5_Witness ==
    /\ response # None
    /\ Unwrap(response).waiting_count = 1
    /\ Unwrap(response).total_count = 3
    /\ \E i \in 1..Len(Sessions) : Sessions[i].status = "Idle"

\* C6: for an assistant message the status is Processing when the file was
\* recently modified and Waiting when not, whatever the other flags.
C6_AssistantBranch ==
    (status_result # None /\ signals.last_msg_type = Some("assistant")) =>
        status_result = IF signals.file_recently_modified
                        THEN Some("Processing") ELSE Some("Waiting")

\* C6's case: a tool use whose file is stale is Waiting.
C6_Witness ==
    /\ signals.last_msg_type = Some("assistant")
    /\ signals.has_tool_use
    /\ ~signals.file_recently_modified
    /\ status_result = Some("Waiting")

C8_TotalAndUnknownType ==
    status_result # None =>
        /\ Unwrap(status_result) \in Statuses
        /\ signals.last_msg_type \notin {Some("assistant"), Some("user")} =>
               status_result = IF signals.file_recently_modified
                               THEN Some("Thinking") ELSE Some("Idle")

\* C8's case: no message type, every other flag set and a recently
\* modified file give Thinking.
C8_Witness ==
    /\ signals.last_msg_type = None
    /\ signals.has_tool_use /\ signals.has_tool_result
    /\ signals.is_local_command /\ signals.is_interrupted
    /\ signals.file_recently_modified
    /\ status_result = Some("Thinking")

\* C9: a Session of the directory-tree family whose matched process uses
\* more than 5 percent CPU is Processing, whatever its last role and
\* whether found through a project or through the global fallback; the
\* family never reports Thinking.
C9_HighCpuIsProcessing ==
    \A i \in 1..Len(Sessions) :
        Sessions[i].agent_type = "OpenCode" =>
            /\ Sessions[i].status # "Thinking"
            /\ \A k \in ProcessesOfPid("OpenCode", Sessions[i].pid) :
                   opencode_processes[k].cpu_usage > 5
                       => Sessions[i].status = "Processing"

\* C9's case: two busy processes, one matched through a project to a
\* session without messages, one through the global fallback to a session
\* last answered by the assistant.
C9_Witness ==
    \E i, j \in 1..Len(Sessions) :
        /\ Sessions[i].id = <<"ses_g">>
        /\ Sessions[i].last_message_role = Some("assistant")
        /\ Sessions[i].cpu_usage = 6
        /\ Sessions[i].status = "Processing"
        /\ Sessions[j].id = <<"ses_n", "_", "p1">>
        /\ Sessions[j].last_message_role = None
        /\ Sessions[j].cpu_usage = 6
        /\ Sessions[j].status = "Processing"

\* The decoding as the specification states it, symbol by symbol: after the
\* leading '-' is dropped, every '-' up to and including the one that
\* follows the first landmark token becomes '/', and the rest stays; with
\* no landmark token every '-' becomes '/'.
SpecifiedDecoding(encoded) ==
    LET name == IF Len(encoded) > 0 /\ encoded[1] = "-"
                THEN SubSeq(encoded, 2, Len(encoded)) ELSE encoded
        marks == {k \in 1..Len(name) : name[k] \in Landmarks}
        last_slash == IF marks = {} THEN Len(name)
                      ELSE (CHOOSE k \in marks : \A h \in marks : k <= h) + 1
    IN  <<"/">> \o [k \in 1..Len(name) |->
                       IF name[k] = "-" /\ k <= last_slash THEN "/" ELSE name[k]]

\* C10: convert_dir_name_to_path returns the specified decoding of every
\* encoded name.
C10_DecoderAgreesWithSpecification ==
    project_path # None => Unwrap(project_path) = SpecifiedDecoding(dir_name)

\* C10's case: the worktree name of the unit test decodes with its double
\* dash kept.
C10_Witness ==
    /\ dir_name = TestNameWorktree
    /\ project_path = Some(<<"/", "Users", "/", "ozan", "/", "Projects", "/", "ai", "-",
                             "image", "-", "dashboard", "-", "-", "rsworktree", "-",
                             "feature">>)

\* The recency window of status.rs: a file modified within the last 3 s.
RecencyWindow == 3

FileRecentlyModified(file) == PollTime - file.mtime < RecencyWindow

\* The project directory holds one transcript file, and its last line is an
\* assistant record with a session identifier and a tool-use block.
EndsWithToolUse(entry) ==
    /\ Len(entry.files) = 1
    /\ entry.files[1].jsonl
    /\ Len(entry.files[1].lines) > 0
    /\ LET line == entry.files[1].lines[Len(entry.files[1].lines)]
       IN  /\ IsSome(line)
           /\ IsSome(Unwrap(line).session_id)
           /\ Unwrap(line).msg_type = Some("assistant")
           /\ IsSome(Unwrap(line).message)
           /\ IsSome(Unwrap(Unwrap(line).message).content)
           /\ HasToolUse(Unwrap(Unwrap(Unwrap(line).message).content))

\* The project directories of the store that a live process is matched to.
MatchedEntries ==
    {k \in 1..Len(claude_projects.entries) :
        /\ claude_projects.exists
        /\ claude_projects.entries[k].is_dir
        /\ ConvertDirNameToPath(claude_projects.entries[k].name)
               \in CwdKeys(claude_processes)}

\* The Session the scan builds for the matched project directory k.
SessionOfEntry(k) ==
    FindActiveSession(claude_projects.entries[k],
                      ConvertDirNameToPath(claude_projects.entries[k].name),
                      CwdToProcess(claude_processes)[
                          ConvertDirNameToPath(claude_projects.entries[k].name)])

\* C11 (as claimed): the Session of a matched project directory whose only
\* transcript ends with an assistant tool-use record is Processing when the
\* file was modified within the recency window and Waiting when it was
\* modified long before.  The reader of session.rs breaks it: its
\* determine_status never looks at the file time, and a stale tool use
\* stays Processing.
C11_ToolUseFollowsRecency ==
    response # None =>
        \A k \in MatchedEntries :
            EndsWithToolUse(claude_projects.entries[k]) =>
                /\ IsSome(SessionOfEntry(k))
                /\ \E i \in 1..Len(Sessions) : Sessions[i] = Unwrap(SessionOfEntry(k))
                /\ Unwrap(SessionOfEntry(k)).status =
                       IF FileRecentlyModified(claude_projects.entries[k].files[1])
                       THEN "Processing" ELSE "Waiting"


\* The sessions stored under storage/session, of every project and "global".
StoredSessions ==
    UNION {{Unwrap(opencode_storage.session[i])[k] :
               k \in 1..Len(Unwrap(opencode_storage.session[i]))} :
              i \in {j \in DOMAIN opencode_storage.session :
                        IsSome(opencode_storage.session[j])}}

\* The stored session a Session of the directory-tree family reports.
StoredOf(session) == CHOOSE stored \in StoredSessions : stored.id = session.id

OpenCodeSessions == {i \in 1..Len(Sessions) : Sessions[i].agent_type = "OpenCode"}

TextParts(message) ==
    {k \in 1..Len(Unwrap(message.parts)) :
        /\ Unwrap(message.parts)[k].part_type = "text"
        /\ IsSome(Unwrap(message.parts)[k].text)}

ReasoningParts(message) ==
    {k \in 1..Len(Unwrap(message.parts)) :
        /\ Unwrap(message.parts)[k].part_type = "reasoning"
        /\ IsSome(Unwrap(message.parts)[k].text)}

\* The content chosen for a message that has a text or a reasoning part: a
\* text-kind part's if there is one, else a reasoning-kind part's.
ChosenContent(message) ==
    LET parts == Unwrap(message.parts)
    IN  IF TextParts(message) # {}
        THEN Unwrap(parts[CHOOSE k \in TextParts(message) : TRUE].text)
        ELSE Unwrap(parts[CHOOSE k \in ReasoningParts(message) : TRUE].text)

\* Trimmed content that starts with '<' and contains "ultrawork" or "mode>".
IsBoilerplate(content) == content.tag /\ content.marker

\* A message yields displayable text: its part directory exists, holds a
\* text or a reasoning part with text, and the chosen content is no
\* boilerplate.
Displayable(message) ==
    /\ IsSome(message.parts)
    /\ TextParts(message) \cup ReasoningParts(message) # {}
    /\ ~IsBoilerplate(ChosenContent(message))

\* No message directory, or no message in it that yields displayable text.
NoDisplayableText(stored) ==
    \/ stored.messages = None
    \/ \A k \in 1..Len(Unwrap(stored.messages)) : ~Displayable(Unwrap(stored.messages)[k])

\* A text shown whole.
Whole(text) == [src |-> text.id, shown |-> text.len, ellipsis |-> FALSE, panic |-> FALSE]

\* C12 (as claimed): a Session of the directory-tree family whose stored
\* session has no message with displayable text has the session's title as
\* its preview, and one whose stored session has such a message does not
\* show the title.  The code breaks the first half for a session whose
\* title is empty (the field defaults to "" when the file has none): its
\* preview is absent, not the empty title.
C12_TitleIsThePreview ==
    \A i \in OpenCodeSessions :
        IF NoDisplayableText(StoredOf(Sessions[i]))
        THEN Sessions[i].last_message = Some(Whole(StoredOf(Sessions[i]).title))
        ELSE /\ IsSome(Sessions[i].last_message)
             /\ Unwrap(Sessions[i].last_message).src # StoredOf(Sessions[i]).title.id

\* C12 (amended): without displayable message text the preview is the
\* title when the title is not empty and is absent when it is empty; with
\* displayable message text the title is not used.
C12_NonEmptyTitleIsThePreview ==
    \A i \in OpenCodeSessions :
        IF NoDisplayableText(StoredOf(Sessions[i]))
        THEN Sessions[i].last_message =
                 IF StoredOf(Sessions[i]).title.len = 0 THEN None
                 ELSE Some(Whole(StoredOf(Sessions[i]).title))
        ELSE /\ IsSome(Sessions[i].last_message)
             /\ Unwrap(Sessions[i].last_message).src # StoredOf(Sessions[i]).title.id

\* C12's case: the only session is titled 'Fix login bug', its message
\* directory holds no message, and the preview is the title.
C12_Witness ==
    \E i \in OpenCodeSessions :
        /\ StoredOf(Sessions[i]).title = Title
        /\ StoredOf(Sessions[i]).messages = Some(<<>>)
        /\ Sessions[i].last_message = Some(Whole(Title))
        /\ Unwrap(Sessions[i].last_message).src = "Fix login bug"

\* C13 (as claimed): every poll completes and returns a SessionsResponse,
\* whatever the transcripts hold.  The code breaks it: both readers cut the
\* preview with a byte slice (&m[..100], &content[..197]), which panics
\* when the offset falls inside a multi-byte character, so a poll over a
\* transcript whose newest text is long and not ASCII returns nothing.
C13_PollAlwaysReturns ==
    operation # "none" => response # None

\* The Sessions of a response that report a session stored for `project`.
ProjectSessions(project) ==
    {i \in OpenCodeSessions :
        /\ IsSome(SessionDir(opencode_storage, project.id))
        /\ \E k \in 1..Len(Unwrap(SessionDir(opencode_storage, project.id))) :
               Unwrap(SessionDir(opencode_storage, project.id))[k].id = Sessions[i].id}

\* The projects of the store that are not the "global" one.
ScopedProjects ==
    {opencode_storage.projects[k] : k \in {j \in 1..Len(opencode_storage.projects) :
                                              opencode_storage.projects[j].id # "global"}}

\* C14 (as claimed): a process is matched to a project exactly when its
\* working directory equals, or is a path-prefix of, the project's worktree
\* or one of its sandboxes.  The code matches in the other direction: a
\* process in a subdirectory of the worktree is matched, a process in a
\* parent of the worktree is not.
C14_MatchedIffPrefixOfProject ==
    LET PrefixOf(cwd, path) == cwd = path \/ StartsWith(path, cwd \o <<"/">>)
        PrefixOfProject(cwd, project) ==
            \/ PrefixOf(cwd, project.worktree)
            \/ \E k \in 1..Len(project.sandboxes) : PrefixOf(cwd, project.sandboxes[k])
    IN  operation # "none" =>
            \A project \in ScopedProjects :
                \A j \in 1..Len(opencode_processes) :
                    (IsSome(opencode_processes[j].cwd)
                        /\ ProjectSessions(project) # {}) =>
                        ((\E i \in ProjectSessions(project) :
                              Sessions[i].pid = opencode_processes[j].pid)
                         <=> PrefixOfProject(Unwrap(opencode_processes[j].cwd), project))

\* C14 (amended): a project is matched only to a process whose working
\* directory equals, or lies inside, the project's worktree or one of its
\* sandboxes, and a project that has a stored session and some such process
\* is matched to one of them.
C14_MatchedIffInsideProject ==
    LET Inside(cwd, path) == cwd = path \/ StartsWith(cwd, path \o <<"/">>)
        InsideProject(cwd, project) ==
            \/ Inside(cwd, project.worktree)
            \/ \E k \in 1..Len(project.sandboxes) : Inside(cwd, project.sandboxes[k])
        Candidates(project) ==
            {j \in 1..Len(opencode_processes) :
                /\ IsSome(opencode_processes[j].cwd)
                /\ InsideProject(Unwrap(opencode_processes[j].cwd), project)}
    IN  operation # "none" =>
            \A project \in ScopedProjects :
                /\ \A i \in ProjectSessions(project) :
                       \E j \in Candidates(project) :
                           opencode_processes[j].pid = Sessions[i].pid
                /\ (/\ Candidates(project) # {}
                    /\ IsSome(SessionDir(opencode_storage, project.id))
                    /\ Len(Unwrap(SessionDir(opencode_storage, project.id))) # 0)
                       => ProjectSessions(project) # {}

\* C14's case: the project of worktree /Projects/a is reported with a
\* process that runs in /Projects/a/x, while no process runs in
\* /Projects/a itself.
C14_Witness ==
    \E project \in ScopedProjects :
        /\ project.worktree = PA
        /\ \A j \in 1..Len(opencode_processes) : opencode_processes[j].cwd # Some(PA)
        /\ \E i \in ProjectSessions(project) :
               \E j \in 1..Len(opencode_processes) :
                   /\ opencode_processes[j].pid = Sessions[i].pid
                   /\ opencode_processes[j].cwd = Some(PAX)

\* C15 (as claimed): the list of a response does not depend on the order
\* in which the matchers produced its sessions: sorting the same sessions
\* in any other arrival order gives the same list.  The code breaks it:
\* sort_by is stable and the comparator stops at last_activity_at, so two
\* sessions of one tier and one timestamp stay in their arrival order,
\* which is the order read_dir and the HashMap happened to give.
C15_OrderIndependentOfArrival ==
    response # None =>
        \A arrival \in IterationOrders(1..Len(Sessions)) :
            SortSessions([k \in 1..Len(Sessions) |-> Sessions[arrival[k]]]) = Sessions

\* The sessions of session/global whose directory field equals the
\* directory or is one of its parents.
GlobalCandidates(directory) ==
    IF SessionDir(opencode_storage, "global") = None THEN {}
    ELSE {stored \in {Unwrap(SessionDir(opencode_storage, "global"))[k] :
                         k \in 1..Len(Unwrap(SessionDir(opencode_storage, "global")))} :
             \/ directory = stored.directory
             \/ StartsWith(directory, stored.directory \o <<"/">>)}

\* The Sessions of a response that report a session of session/global.
GlobalSessions == ProjectSessions([id |-> "global"])

\* C16: a process reported with a session of a project is not also
\* reported with a global session; a global session is reported only for a
\* process with a working directory, and it is the one of the latest
\* `updated` among those whose directory field is that working directory
\* or a parent of it; and a process with a working directory for which
\* there is such a global session is reported with it unless the first
\* pass claimed the process: it is reported with the session of a project
\* that contains its working directory, or such a project has no session.
C16_GlobalFallbackForUnclaimed ==
    operation # "none" =>
        /\ \A i \in GlobalSessions :
               /\ \A project \in ScopedProjects :
                      \A h \in ProjectSessions(project) : Sessions[h].pid # Sessions[i].pid
               /\ \E j \in 1..Len(opencode_processes) :
                      /\ opencode_processes[j].pid = Sessions[i].pid
                      /\ IsSome(opencode_processes[j].cwd)
                      /\ StoredOf(Sessions[i])
                             \in GlobalCandidates(Unwrap(opencode_processes[j].cwd))
                      /\ \A stored \in GlobalCandidates(Unwrap(opencode_processes[j].cwd)) :
                             stored.updated <= StoredOf(Sessions[i]).updated
        /\ \A j \in 1..Len(opencode_processes) :
               (/\ IsSome(opencode_processes[j].cwd)
                /\ GlobalCandidates(Unwrap(opencode_processes[j].cwd)) # {})
                   => \/ \E i \in GlobalSessions :
                             Sessions[i].pid = opencode_processes[j].pid
                      \/ \E project \in ScopedProjects :
                             /\ WorktreeMatches(Unwrap(opencode_processes[j].cwd), project)
                             /\ \/ \E h \in ProjectSessions(project) :
                                       Sessions[h].pid = opencode_processes[j].pid
                                \/ SessionDir(opencode_storage, project.id) \in {None, Some(<<>>)}

\* C16's case: one process is reported with the session of a project and
\* another, which no project claimed, with the newer of two matching
\* global sessions.
C16_Witness ==
    /\ \E project \in ScopedProjects : ProjectSessions(project) # {}
    /\ \E i \in GlobalSessions :
           \E j \in 1..Len(opencode_processes) :
               /\ opencode_processes[j].pid = Sessions[i].pid
               /\ Cardinality(GlobalCandidates(Unwrap(opencode_processes[j].cwd))) = 2

\* The window of the only transcript: the last 100 lines of the single
\* file of the single project directory, newest first.
Window == RecentOf(claude_projects.entries[1].files[1].lines)

\* The projects root holds one project directory, of a live process, with
\* one transcript file, and a poll has returned.
OneTranscript ==
    /\ response # None
    /\ Len(claude_projects.entries) = 1
    /\ MatchedEntries = {1}
    /\ Len(claude_projects.entries[1].files) = 1

ClaudeSessions == {i \in 1..Len(Sessions) : Sessions[i].agent_type = "Claude"}

\* C17 (as claimed): the Session's id is the session identifier of the
\* newest parseable record of the window that carries a non-empty one, and
\* without such a record there is no Session.  The code breaks it: it
\* takes the newest identifier that is present, empty or not, so a record
\* with "sessionId": "" yields a Session whose id is the empty string.
C17_IdOfNewestNonEmpty ==
    OneTranscript =>
        LET with_id == FirstWhere(Window,
                           {k \in 1..Len(Window) :
                               /\ Window[k] # None
                               /\ IsSome(Unwrap(Window[k]).session_id)
                               /\ Unwrap(Unwrap(Window[k]).session_id) # <<>>})
        IN  IF with_id = None THEN ClaudeSessions = {}
            ELSE /\ ClaudeSessions # {}
                 /\ \A i \in ClaudeSessions :
                        Sessions[i].id = Unwrap(Unwrap(Unwrap(with_id)).session_id)

\* C18 (as claimed): whenever a record of the window carries a branch
\* name, the Session's branch is that of the newest such record, whichever
\* records supplied the identifier and the status signals.  The code scans
\* no further than the first record at which it knows both an identifier
\* and the status signals: a branch that only older records carry is not
\* reported.
C18_BranchOfNewestInWindow ==
    OneTranscript =>
        LET with_branch == FirstWhere(Window,
                               {k \in 1..Len(Window) :
                                   /\ Window[k] # None
                                   /\ IsSome(Unwrap(Window[k]).git_branch)
                                   /\ Unwrap(Unwrap(Window[k]).git_branch) # <<>>})
        IN  IsSome(with_branch) =>
                \A i \in ClaudeSessions :
                    Sessions[i].git_branch = Unwrap(Unwrap(with_branch)).git_branch

\* C18 (amended): the Session's branch is the gitBranch field of the newest
\* record that has the field, empty or not, among the parseable records
\* from the newest down to the first at which an identifier and status
\* signals (a message with non-empty content) have both been seen; it is
\* absent when none of these records has the field.
C18_BranchOfNewestScanned ==
    OneTranscript =>
        LET parsed == {k \in 1..Len(Window) : Window[k] # None}
            Known(k) ==
                /\ \E j \in parsed : j <= k /\ IsSome(Unwrap(Window[j]).session_id)
                /\ \E j \in parsed : j <= k /\ HasStatusInfo(Window[j])
            with_branch == FirstWhere(Window,
                               {k \in parsed :
                                   /\ IsSome(Unwrap(Window[k]).git_branch)
                                   /\ \A j \in parsed : j < k => ~Known(j)})
        IN  \A i \in ClaudeSessions :
                Sessions[i].git_branch =
                    IF IsSome(with_branch) THEN Unwrap(Unwrap(with_branch)).git_branch
                    ELSE None

\* C18's case: the newest record has an identifier and content but no
\* branch, the record before it has the branch main, and the Session has
\* no branch.
C18_Witness ==
    /\ OneTranscript
    /\ Len(Window) = 2
    /\ Window[1] # None /\ Window[2] # None
    /\ Unwrap(Window[1]).git_branch = None
    /\ Unwrap(Window[2]).git_branch = Some(<<"main">>)
    /\ HasStatusInfo(Window[1])
    /\ IsSome(Unwrap(Window[1]).session_id)
    /\ \E i \in ClaudeSessions : Sessions[i].git_branch = None

\* C19 (as claimed): a preview is the source text unchanged, and then no
\* longer than the family's bound (100 or 200), or a prefix of it followed
\* by "...", and never longer than the bound plus three, whatever its
\* source.  The code breaks it for the title: the fallback to the session
\* title copies the title whole, however long.
C19_PreviewIsBounded ==
    \A i \in 1..Len(Sessions) :
        IsSome(Sessions[i].last_message) =>
            LET preview == Unwrap(Sessions[i].last_message)
                bound == IF Sessions[i].agent_type = "Claude" THEN ClaudePreviewMax
                         ELSE OpenCodePreviewMax
            IN  /\ ~preview.ellipsis => preview.shown <= bound
                /\ preview.shown + (IF preview.ellipsis THEN 3 ELSE 0) <= bound + 3

\* C20: when some message of the reported session yields displayable text,
\* the preview and the role are those of a message of the greatest
\* creation timestamp among the messages that do, whatever newer messages
\* without displayable text there are, and the preview shows the message's
\* text part if it has one with text, else its reasoning part.
C20_NewestDisplayableMessage ==
    \A i \in OpenCodeSessions :
        ~NoDisplayableText(StoredOf(Sessions[i])) =>
            LET messages == Unwrap(StoredOf(Sessions[i]).messages)
                shown == {k \in 1..Len(messages) : Displayable(messages[k])}
            IN  \E k \in shown :
                    /\ \A h \in shown : messages[h].created <= messages[k].created
                    /\ IsSome(Sessions[i].last_message)
                    /\ Unwrap(Sessions[i].last_message).src = ChosenContent(messages[k]).id
                    /\ Sessions[i].last_message_role = Some(messages[k].role)

\* C20's case: the newer message is boilerplate before a reasoning, the
\* older one a reasoning before a text, and the Session shows the older
\* message's text and role.
C20_Witness ==
    \E i \in OpenCodeSessions :
        LET messages == StoredOf(Sessions[i]).messages
        IN  /\ IsSome(messages)
            /\ Len(Unwrap(messages)) = 2
            /\ \E k, h \in 1..2 :
                   /\ Unwrap(messages)[k].created = 2
                   /\ Unwrap(messages)[k].parts =
                          Some(<<TextPart(Boilerplate), ReasoningPart(Thought)>>)
                   /\ Unwrap(messages)[h].created = 1
                   /\ Unwrap(messages)[h].parts =
                          Some(<<ReasoningPart(Thought), TextPart(ShortText)>>)
                   /\ Unwrap(Sessions[i].last_message).src = ShortText.id
                   /\ Sessions[i].last_message_role = Some(Unwrap(messages)[h].role)

\* C21 (as claimed): a family creates its process-table snapshot once and
\* refreshes it in every later enumeration, so that from its second
\* enumeration on the CPU usage it reports is computed against the sample
\* of the one before: a process that computes all the time is reported at
\* 100 percent.  The code breaks it for the Claude family:
\* find_claude_processes creates a System in every call, whose only
\* sample gives a usage of zero.
C21_OneSnapshotPerFamily ==
    \A family \in {"Claude", "OpenCode"} :
        /\ systems_created[family] <= 1
        /\ (/\ Len(polls[family]) >= 2
            /\ polls[family][Len(polls[family])] # polls[family][Len(polls[family]) - 1]
            /\ busy[family])
               => FamilyProcesses(family)[1].cpu_usage = 100

\* C24: the callers of find_opencode_processes never overlap between
\* lock() and the return: a caller past lock() holds the guard, no other
\* caller is past lock() at the same time, and the snapshot is created at
\* most once.
C24_EnumerationsAreSerialised ==
    /\ \A caller \in DOMAIN pc :
           pc[caller] \in {"locked", "initialised", "refreshed"} =>
               /\ opencode_system.lock = Some(caller)
               /\ \A other \in DOMAIN pc \ {caller} : pc[other] \in {"idle", "waiting"}
    /\ systems_created["OpenCode"] <= 1

\* C24's case: one caller has refreshed the snapshot that an earlier
\* enumeration created and is about to read it, while the other caller
\* waits at lock().
C24_Witness ==
    \E caller, other \in DOMAIN pc :
        /\ pc[caller] = "refreshed"
        /\ pc[other] = "waiting"
        /\ Len(polls["OpenCode"]) >= 1
        /\ systems_created["OpenCode"] = 1

\* C22 (as claimed): a Session whose preview and role are both present
\* takes them from one message: a record of the window whose role it
\* reports and whose text it shows (line-delimited family), or a stored
\* message that yields the text shown and has that role (directory-tree
\* family).  The code breaks it for the line-delimited family: the role is
\* that of the newest record with non-empty content, the text that of the
\* newest record with text, so an assistant tool use after a user's text
\* gives the role "assistant" over the user's words.
C22_RoleOfTheMessageShown ==
    /\ OneTranscript =>
           \A i \in ClaudeSessions :
               (IsSome(Sessions[i].last_message) /\ IsSome(Sessions[i].last_message_role)) =>
                   \E k \in 1..Len(Window) :
                       /\ Window[k] # None
                       /\ IsSome(Unwrap(Window[k]).message)
                       /\ Unwrap(Unwrap(Window[k]).message).role = Sessions[i].last_message_role
                       /\ IsSome(Unwrap(Unwrap(Window[k]).message).content)
                       /\ LET text == ContentText(Unwrap(Unwrap(Unwrap(Window[k]).message).content))
                          IN  /\ IsSome(text)
                              /\ Unwrap(text).id = Unwrap(Sessions[i].last_message).src
    /\ \A i \in OpenCodeSessions :
           (IsSome(Sessions[i].last_message) /\ IsSome(Sessions[i].last_message_role)) =>
               /\ IsSome(StoredOf(Sessions[i]).messages)
               /\ \E k \in 1..Len(Unwrap(StoredOf(Sessions[i]).messages)) :
                      LET message == Unwrap(StoredOf(Sessions[i]).messages)[k]
                      IN  /\ Displayable(message)
                          /\ Some(message.role) = Sessions[i].last_message_role
                          /\ ChosenContent(message).id = Unwrap(Sessions[i].last_message).src

\* C23 (as claimed): every last_activity_at of a response has the form
\* YYYY-MM-DDTHH:MM:SS.mmmZ, and of two sessions of one status tier the one
\* listed first is not the older one, in both families and without a
\* timestamp in the transcript.  The code breaks it: a line-delimited
\* transcript whose scanned records carry no timestamp gives the Session
\* the text "Unknown", which is no timestamp and compares greater than
\* every timestamp.
C23_FixedWidthTimestamps ==
    LET digits == {1, 2, 3, 4, 6, 7, 9, 10, 12, 13, 15, 16, 18, 19, 21, 22, 23}
        IsTimestamp(ts) ==
            /\ Len(ts) = 24
            /\ \A k \in digits : ts[k] \in 48..57
            /\ ts[5] = 45 /\ ts[8] = 45 /\ ts[11] = 84
            /\ ts[14] = 58 /\ ts[17] = 58 /\ ts[20] = 46 /\ ts[24] = 90
        Millis(ts) ==
            ((((ts[15] - 48) * 10 + (ts[16] - 48)) * 60
              + (ts[18] - 48) * 10 + (ts[19] - 48)) * 1000)
            + (ts[21] - 48) * 100 + (ts[22] - 48) * 10 + (ts[23] - 48)
    IN  /\ \A i \in 1..Len(Sessions) : IsTimestamp(Sessions[i].last_activity_at)
        /\ \A i, j \in 1..Len(Sessions) :
               (i < j /\ Tier(Sessions[i].status) = Tier(Sessions[j].status)) =>
                   Millis(Sessions[i].last_activity_at) >= Millis(Sessions[j].last_activity_at)

\* C25 (as claimed): with the live processes and the store of the state,
\* any two runs of the directory-tree matcher choose the same process for
\* every project and report the same Sessions, pid and cpu_usage included.
\* The code breaks it: the process of a project is the first match in the
\* iteration order of a HashMap, which differs from one map to the next,
\* so with two processes in different directories of one worktree either
\* may be chosen.
C25_MatchingIsDeterministic ==
    \A first, second \in IterationOrders(CwdKeys(opencode_processes)) :
        /\ \A k \in 1..Len(opencode_storage.projects) :
               MatchingProcess(opencode_storage.projects[k],
                               CwdToProcess(opencode_processes), first)
               = MatchingProcess(opencode_storage.projects[k],
                                 CwdToProcess(opencode_processes), second)
        /\ OpenCodeFindSessions(opencode_storage, opencode_processes, first)
           = OpenCodeFindSessions(opencode_storage, opencode_processes, second)

\* C26 (as claimed): when a poll has returned, a project that is not the
\* global one, has no stored session and contains the working directory
\* of some process has claimed one of these processes, and the claimed
\* process is reported with no Session at all, a matching global session
\* notwithstanding.  The code breaks the last part through the defect of
\* C1: the pass over the projects never consults matched_pids, so a second
\* project that contains the same working directory and has a session
\* reports the process that the session-less project had claimed.
C26_ClaimedWithoutSessionIsUnreported ==
    (operation # "none" /\ response # None) =>
        \A project \in ScopedProjects :
            LET inside == {cwd \in CwdKeys(opencode_processes) : WorktreeMatches(cwd, project)}
            IN  (/\ SessionDir(opencode_storage, project.id) \in {None, Some(<<>>)}
                 /\ inside # {})
                    => \E cwd \in inside :
                           \A i \in 1..Len(Sessions) :
                               Sessions[i].pid # CwdToProcess(opencode_processes)[cwd].pid

====
